---- MODULE Spec2Model ----
(***************************************************************************)
(* Model of the extraction core of the document-ingestion system            *)
(* (src/extractors/extractors.py): the six extraction strategies and the    *)
(* ExtractorFactory.                                                        *)
(*                                                                          *)
(* A Python str is a sequence of code points, a file's content a sequence   *)
(* of bytes.  The libraries the strategies call (pdfplumber, pdf2image,     *)
(* pytesseract, PIL, python-docx, ezdxf, pandas) are not part of the        *)
(* repository: what they return or raise for a file is part of the input    *)
(* record that describes the file.                                          *)
(***************************************************************************)
EXTENDS Integers, Sequences, FiniteSets, TLC

VARIABLES
    extractors,     \* ExtractorFactory.extractors: tag -> strategy class
    instance,       \* the strategy instance the caller holds
    next_id,        \* number of strategy instances created so far
    call,           \* the last operation invoked and its argument
    result,         \* the value the last extract call returned
    raised,         \* the exception the last operation raised to its caller
    ocr_attempts,   \* pages the last PDF extraction rasterized for OCR
    open_handles    \* file handles opened by extract calls and not yet closed

vars == <<extractors, instance, next_id, call, result, raised, ocr_attempts,
          open_handles>>

----------------------------------------------------------------------------
(* Bounds of the model *)

MaxInstances == 2
MaxOpenHandles == 1
MaxPages == 2
MaxRows == 11
MaxFileLen == 2
MaxEntities == 2

----------------------------------------------------------------------------
(* Python values *)

\* None, where a str, a tuple or a list is expected: no str holds a negative
\* code point.
None == <<-1>>

NoExc == [type |-> "", msg |-> <<>>]

Exc(t, m) == [type |-> t, msg |-> m]

\* The exception classes the libraries and the code raise; all derive from
\* Exception.
ExceptionTypes ==
    {"ValueError", "UnicodeDecodeError", "FileNotFoundError", "TypeError",
     "PDFSyntaxError", "PDFPageCountError", "TesseractError",
     "UnidentifiedImageError", "PackageNotFoundError", "DXFStructureError",
     "ParserError", "EmptyDataError", "KeyError"}

\* `except <handler>` catches exception type t.  "" is the bare `except:`.
Catches(handler, t) ==
    \/ handler = ""
    \/ handler = "Exception" /\ t \in ExceptionTypes
    \/ handler = t

Min(a, b) == IF a < b THEN a ELSE b

Rep(c, n) == [i \in 1..n |-> c]

\* sep.join(parts)
RECURSIVE Join(_, _)
Join(parts, sep) ==
    IF parts = <<>> THEN <<>>
    ELSE IF Len(parts) = 1 THEN parts[1]
    ELSE parts[1] \o sep \o Join(Tail(parts), sep)

\* str.strip(): whitespace code points among those the model uses
IsSpace(c) == c \in {9, 10, 11, 12, 13, 32}

RECURSIVE LStrip(_)
LStrip(s) ==
    IF s = <<>> THEN <<>>
    ELSE IF IsSpace(s[1]) THEN LStrip(Tail(s)) ELSE s

RECURSIVE RStrip(_)
RStrip(s) ==
    IF s = <<>> THEN <<>>
    ELSE IF IsSpace(s[Len(s)]) THEN RStrip(SubSeq(s, 1, Len(s) - 1)) ELSE s

Strip(s) == RStrip(LStrip(s))

\* str.lower() on ASCII
Lower(s) == [i \in 1..Len(s) |-> IF s[i] >= 65 /\ s[i] <= 90 THEN s[i] + 32 ELSE s[i]]

\* s.endswith(suffix)
EndsWith(s, suffix) ==
    /\ Len(s) >= Len(suffix)
    /\ SubSeq(s, Len(s) - Len(suffix) + 1, Len(s)) = suffix

\* s.startswith(prefix) at position i (1-based)
MatchAt(s, i, sub) ==
    /\ i + Len(sub) - 1 <= Len(s)
    /\ SubSeq(s, i, i + Len(sub) - 1) = sub

\* sub in s
Contains(s, sub) == \E i \in 1..(Len(s) + 1) : MatchAt(s, i, sub)

\* s.count(sub) for a sub that cannot overlap itself
Count(s, sub) == Cardinality({i \in 1..Len(s) : MatchAt(s, i, sub)})

\* os.path.basename(p): what follows the last "/"
RECURSIVE Basename(_)
Basename(p) ==
    IF \E i \in 1..Len(p) : p[i] = 47
    THEN Basename(Tail(p))
    ELSE p

\* str(n) for a natural number
RECURSIVE Str(_)
Str(n) == IF n < 10 THEN <<48 + n>> ELSE Str(n \div 10) \o <<48 + (n % 10)>>

\* dict[k] = v
SetKey(d, k, v) == [x \in DOMAIN d \cup {k} |-> IF x = k THEN v ELSE d[x]]

----------------------------------------------------------------------------
(* Codecs: bytes.decode(encoding), errors='strict' *)

IsCont(b) == b >= 128 /\ b <= 191

\* Length of the well-formed UTF-8 sequence starting at bs[1], 0 if none.
Utf8SeqLen(bs) ==
    LET b == bs[1]
        n == Len(bs)
    IN  IF b < 128 THEN 1
        ELSE IF b >= 194 /\ b <= 223
            THEN IF n >= 2 /\ IsCont(bs[2]) THEN 2 ELSE 0
        ELSE IF b >= 224 /\ b <= 239
            THEN IF /\ n >= 3 /\ IsCont(bs[2]) /\ IsCont(bs[3])
                    /\ (b = 224 => bs[2] >= 160)
                    /\ (b = 237 => bs[2] <= 159)
                 THEN 3 ELSE 0
        ELSE IF b >= 240 /\ b <= 244
            THEN IF /\ n >= 4 /\ IsCont(bs[2]) /\ IsCont(bs[3]) /\ IsCont(bs[4])
                    /\ (b = 240 => bs[2] >= 144)
                    /\ (b = 244 => bs[2] <= 143)
                 THEN 4 ELSE 0
        ELSE 0

Utf8CodePoint(bs, k) ==
    IF k = 1 THEN bs[1]
    ELSE IF k = 2 THEN (bs[1] - 192) * 64 + (bs[2] - 128)
    ELSE IF k = 3 THEN (bs[1] - 224) * 4096 + (bs[2] - 128) * 64 + (bs[3] - 128)
    ELSE (bs[1] - 240) * 262144 + (bs[2] - 128) * 4096
         + (bs[3] - 128) * 64 + (bs[4] - 128)

\* None when the bytes are not valid UTF-8
RECURSIVE Utf8Decode(_)
Utf8Decode(bs) ==
    IF bs = <<>> THEN <<>>
    ELSE LET k == Utf8SeqLen(bs)
         IN  IF k = 0 THEN None
             ELSE LET rest == Utf8Decode(SubSeq(bs, k + 1, Len(bs)))
                  IN  IF rest = None THEN None
                      ELSE <<Utf8CodePoint(bs, k)>> \o rest

\* latin-1 maps every byte to the code point of the same number
Latin1Decode(bs) == bs

\* cp1252, bytes 0x80..0x9F; -1 where the code page defines no character
Cp1252High ==
    <<8364, -1, 8218, 402, 8222, 8230, 8224, 8225,
      710, 8240, 352, 8249, 338, -1, 381, -1,
      -1, 8216, 8217, 8220, 8221, 8226, 8211, 8212,
      732, 8482, 353, 8250, 339, -1, 382, 376>>

Cp1252Char(b) == IF b >= 128 /\ b <= 159 THEN Cp1252High[b - 127] ELSE b

Cp1252Decode(bs) ==
    IF \E i \in 1..Len(bs) : Cp1252Char(bs[i]) = -1 THEN None
    ELSE [i \in 1..Len(bs) |-> Cp1252Char(bs[i])]

\* None stands for UnicodeDecodeError
Decode(bs, encoding) ==
    IF encoding = "utf-8" THEN Utf8Decode(bs)
    ELSE IF encoding = "latin-1" THEN Latin1Decode(bs)
    ELSE Cp1252Decode(bs)

\* The candidate encodings, in the order the CSV and TXT strategies try them
Encodings == <<"utf-8", "latin-1", "cp1252">>

\* Text-mode read with newline=None: "\r\n" and "\r" become "\n"
RECURSIVE UniversalNewlines(_)
UniversalNewlines(s) ==
    IF s = <<>> THEN <<>>
    ELSE IF s[1] = 13
        THEN IF Len(s) >= 2 /\ s[2] = 10
             THEN <<10>> \o UniversalNewlines(SubSeq(s, 3, Len(s)))
             ELSE <<10>> \o UniversalNewlines(Tail(s))
    ELSE <<s[1]>> \o UniversalNewlines(Tail(s))

----------------------------------------------------------------------------
(* What an extract call hands back: the result dict it returns, or the      *)
(* exception it lets through, with the handles it opened and closed.        *)

NoResult == [text |-> <<>>, metadata |-> <<>>]

Returned(res, opened, closed, ocr) ==
    [result |-> res, raised |-> NoExc, opened |-> opened, closed |-> closed,
     ocr |-> ocr]

Propagated(e, opened, closed, ocr) ==
    [result |-> NoResult, raised |-> e, opened |-> opened, closed |-> closed,
     ocr |-> ocr]

----------------------------------------------------------------------------
(* TXTExtractor *)

\* A plain-text file: whether it can be opened, and its bytes.
TXTBytes == {65, 10, 13, 128, 129, 194}

RECURSIVE ByteSeqs(_)
ByteSeqs(n) ==
    IF n = 0 THEN {<<>>}
    ELSE LET shorter == ByteSeqs(n - 1)
         IN  shorter \cup {Append(s, b) : s \in {t \in shorter : Len(t) = n - 1},
                                           b \in TXTBytes}

TXTFiles ==
    {[exists |-> FALSE, bytes |-> <<>>]}
    \cup {[exists |-> TRUE, bytes |-> bs] : bs \in ByteSeqs(MaxFileLen)}

TXTInitial == [text |-> <<>>, metadata |-> [encoding |-> "utf-8", lines |-> 0]]

\* with open(filepath, 'r', encoding=encoding) as f: text = f.read()
TXTRead(file, encoding) ==
    IF ~file.exists
    THEN [exc |-> Exc("FileNotFoundError", <<"No such file or directory">>),
          text |-> <<>>, opened |-> 0, closed |-> 0]
    ELSE LET d == Decode(file.bytes, encoding)
         IN  IF d = None
             THEN [exc |-> Exc("UnicodeDecodeError", <<"codec can't decode", encoding>>),
                   text |-> <<>>, opened |-> 1, closed |-> 1]
             ELSE [exc |-> NoExc, text |-> UniversalNewlines(d),
                   opened |-> 1, closed |-> 1]

\* The for/else loop over the candidate encodings, from candidate k on.
RECURSIVE TXTResolve(_, _)
TXTResolve(file, k) ==
    IF k > Len(Encodings)
    THEN [exc |-> Exc("ValueError", <<"Could not decode text file with any common encoding">>),
          text |-> <<>>, encoding |-> "", opened |-> 0, closed |-> 0]
    ELSE LET r == TXTRead(file, Encodings[k])
         IN  IF r.exc = NoExc
             THEN [exc |-> NoExc, text |-> r.text, encoding |-> Encodings[k],
                   opened |-> r.opened, closed |-> r.closed]
             ELSE IF Catches("UnicodeDecodeError", r.exc.type)
             THEN LET n == TXTResolve(file, k + 1)
                  IN  [n EXCEPT !.opened = @ + r.opened, !.closed = @ + r.closed]
             ELSE [exc |-> r.exc, text |-> <<>>, encoding |-> "",
                   opened |-> r.opened, closed |-> r.closed]

TXTExcept(res, e) == [res EXCEPT !.metadata = SetKey(@, "error", e.msg)]

TXTExtract(file) ==
    LET r == TXTResolve(file, 1)
        ok == [text |-> r.text,
               metadata |-> [encoding |-> r.encoding,
                             lines |-> Count(r.text, <<10>>) + 1]]
    IN  IF r.exc = NoExc THEN Returned(ok, r.opened, r.closed, <<>>)
        ELSE IF Catches("Exception", r.exc.type)
        THEN Returned(TXTExcept(TXTInitial, r.exc), r.opened, r.closed, <<>>)
        ELSE Propagated(r.exc, r.opened, r.closed, <<>>)

----------------------------------------------------------------------------
(* CSVExtractor *)

PreviewRows == 10

S_CSV1 == <<67, 83, 86, 32, 84, 97, 98, 108, 101, 32, 119, 105, 116, 104, 32>>
S_CSV2 == <<32, 114, 111, 119, 115, 32, 97, 110, 100, 32>>
S_CSV3 == <<32, 99, 111, 108, 117, 109, 110, 115, 58>>
S_COLS == <<67, 111, 108, 117, 109, 110, 115, 58, 32>>
S_PREVIEW == <<68, 97, 116, 97, 32, 112, 114, 101, 118, 105, 101, 119, 58>>
S_EMPTYDF == <<69, 109, 112, 116, 121, 32, 68, 97, 116, 97, 70, 114, 97, 109,
               101, 10, 67, 111, 108, 117, 109, 110, 115, 58, 32, 91>>
S_EMPTYIDX == <<93, 10, 73, 110, 100, 101, 120, 58, 32, 91, 93>>

\* The header cells (column names, as bytes) of the CSV files of the model:
\* "A"; "A", 0x80; 0xC2 0x80, "B"; 0x81, "A"; no column at all.
CSVHeaders ==
    {<< <<65>> >>, << <<65>>, <<128>> >>, << <<194, 128>>, <<66>> >>,
     << <<129>>, <<65>> >>, <<>>}

\* A CSV file: whether it can be opened, its header cells, the number of its
\* data rows, and whether its rows are malformed for the parser.
CSVFiles ==
    {[exists |-> FALSE, header |-> <<>>, nrows |-> 0, malformed |-> FALSE]}
    \cup {[exists |-> TRUE, header |-> h, nrows |-> n, malformed |-> m] :
            h \in CSVHeaders, n \in 0..MaxRows, m \in BOOLEAN}

\* The cell of data row i in column j: "#", i in two digits, a letter for j.
DataCell(i, j) == <<35, 48 + (i \div 10), 48 + (i % 10), 96 + j>>

CSVInitial ==
    [text |-> <<>>,
     metadata |-> [rows |-> 0, columns |-> 0, encoding |-> "utf-8"]]

\* pd.read_csv(filepath, encoding=encoding): the data frame, or the exception
ReadCsv(file, encoding) ==
    IF ~file.exists
    THEN [exc |-> Exc("FileNotFoundError", <<"No such file or directory">>)]
    ELSE IF \E j \in 1..Len(file.header) : Decode(file.header[j], encoding) = None
    THEN [exc |-> Exc("UnicodeDecodeError", <<"codec can't decode", encoding>>)]
    ELSE IF file.header = <<>>
    THEN [exc |-> Exc("EmptyDataError", <<"No columns to parse from file">>)]
    ELSE IF file.malformed
    THEN [exc |-> Exc("ParserError", <<"Error tokenizing data">>)]
    ELSE [exc |-> NoExc,
          columns |-> [j \in 1..Len(file.header) |-> Decode(file.header[j], encoding)],
          rows |-> [i \in 1..file.nrows |->
                      [j \in 1..Len(file.header) |-> DataCell(i, j)]]]

\* A preview that is not cut
DfHead_All(df, n) == df

\* df.head(n)
DfHead(df, n) == [df EXCEPT !.rows = SubSeq(@, 1, Min(n, Len(@)))]

\* str.rjust(width)
RJust(s, width) == IF Len(s) >= width THEN s ELSE Rep(32, width - Len(s)) \o s

RECURSIVE MaxWidth(_)
MaxWidth(strs) ==
    IF strs = <<>> THEN 0
    ELSE LET m == MaxWidth(Tail(strs))
         IN  IF Len(strs[1]) > m THEN Len(strs[1]) ELSE m

\* df.to_string(index=False): a line of column names and a line per row,
\* every column right-aligned to its widest cell.
DfToString(df) ==
    IF df.rows = <<>>
    THEN S_EMPTYDF \o Join(df.columns, <<44, 32>>) \o S_EMPTYIDX
    ELSE LET ncols == Len(df.columns)
             width(j) == MaxWidth(<<df.columns[j]>> \o
                                [i \in 1..Len(df.rows) |-> df.rows[i][j]])
             line(cells) == Join([j \in 1..ncols |-> RJust(cells[j], width(j))], <<32>>)
         IN  Join(<<line(df.columns)>> \o
                  [i \in 1..Len(df.rows) |-> line(df.rows[i])], <<10>>)

\* The for/else loop over the candidate encodings, from candidate k on.
RECURSIVE CSVResolve(_, _)
CSVResolve(file, k) ==
    IF k > Len(Encodings)
    THEN [exc |-> Exc("ValueError", <<"Could not decode CSV with any common encoding">>)]
    ELSE LET r == ReadCsv(file, Encodings[k])
         IN  IF r.exc = NoExc
             THEN [exc |-> NoExc, df |-> r, encoding |-> Encodings[k]]
             ELSE IF Catches("UnicodeDecodeError", r.exc.type)
             THEN CSVResolve(file, k + 1)
             ELSE [exc |-> r.exc]

\* The text representation built from the parsed data frame
CSVText(df) ==
    Join(<< S_CSV1 \o Str(Len(df.rows)) \o S_CSV2 \o Str(Len(df.columns)) \o S_CSV3,
            S_COLS \o Join(df.columns, <<44, 32>>),
            S_PREVIEW,
            DfToString(DfHead(df, PreviewRows)) >>, <<10, 10>>)

CSVExcept(res, e) == [res EXCEPT !.metadata = SetKey(@, "error", e.msg)]

CSVExtract(file) ==
    LET r == CSVResolve(file, 1)
    IN  IF r.exc = NoExc
        THEN Returned([text |-> CSVText(r.df),
                       metadata |-> [rows |-> Len(r.df.rows),
                                     columns |-> Len(r.df.columns),
                                     encoding |-> r.encoding]], 0, 0, <<>>)
        ELSE IF Catches("Exception", r.exc.type)
        THEN Returned(CSVExcept(CSVInitial, r.exc), 0, 0, <<>>)
        ELSE Propagated(r.exc, 0, 0, <<>>)

----------------------------------------------------------------------------
(* PDFExtractor *)

MinTextLen == 30

S_PAGE == <<112, 97, 103, 101, 95>>
S_DIRECT == <<95, 100, 105, 114, 101, 99, 116>>
S_OCR == <<95, 111, 99, 114>>
S_TABLE == <<84, 65, 66, 76, 69, 58, 10>>
S_PIPE == <<32, 124, 32>>

\* f'page_{i+1}_direct' and f'page_{i+1}_ocr', i the 1-based page number here
DirectTag(i) == S_PAGE \o Str(i) \o S_DIRECT
\* A tag numbered from 0, as enumerate counts
OcrTag_ZeroBased(i) == S_PAGE \o Str(i - 1) \o S_OCR

OcrTag(i) == S_PAGE \o Str(i) \o S_OCR

\* A table as page.extract_tables() returns it: a list of rows of cells, a
\* cell a str or None.
GoodTable == << << <<120>>, None, <<121, 122>> >>, << <<>>, <<119>> >> >>

\* What the libraries do on one page of a PDF file:
\*   text, text_raises   page.extract_text() returns text, or raises
\*   raster_ok           convert_from_path returns the page's image, or raises
\*   ocr_ok, ocr_text    pytesseract.image_to_string returns ocr_text, or raises
\*   tables, tables_raise  page.extract_tables() returns tables (None and
\*                       [] alike are <<>>), or raises
\*   bad_tables          the tables whose serialization raises (a row that
\*                       is not a list), by position in tables
Page(text, text_raises, raster_ok, ocr_ok, tables, tables_raise, bad_tables) ==
    [text |-> text, text_raises |-> text_raises, raster_ok |-> raster_ok,
     ocr_ok |-> ocr_ok, ocr_text |-> <<115, 99, 97, 110>>,
     tables |-> tables, tables_raise |-> tables_raise, bad_tables |-> bad_tables]

PDFPages ==
    { \* a text layer of MinTextLen + 1 characters after a blank, one table
      Page(<<32>> \o Rep(97, MinTextLen + 1), FALSE, TRUE, TRUE, <<GoodTable>>, FALSE, {}),
      \* MinTextLen characters between a blank and a line break, no table
      Page(<<32>> \o Rep(97, MinTextLen) \o <<10>>, FALSE, TRUE, TRUE, <<>>, FALSE, {}),
      \* no text layer, rasterization fails, table extraction fails
      Page(None, FALSE, FALSE, TRUE, <<>>, TRUE, {}),
      \* reading the text layer fails
      Page(None, TRUE, TRUE, TRUE, <<>>, FALSE, {}),
      \* empty text layer, recognition fails, one table
      Page(<<>>, FALSE, TRUE, FALSE, <<GoodTable>>, FALSE, {}),
      \* a long text layer, a good table and one that cannot be serialized
      Page(Rep(97, MinTextLen + 2), FALSE, TRUE, TRUE, <<GoodTable, GoodTable>>, FALSE, {2}),
      \* a text layer of MinTextLen + 1 characters, table extraction fails
      Page(Rep(98, MinTextLen + 1), FALSE, TRUE, TRUE, <<>>, TRUE, {}) }

RECURSIVE PageSeqs(_)
PageSeqs(n) ==
    IF n = 0 THEN {<<>>}
    ELSE LET shorter == PageSeqs(n - 1)
         IN  shorter \cup {Append(s, pg) : s \in {t \in shorter : Len(t) = n - 1},
                                            pg \in PDFPages}

\* A PDF file: whether pdfplumber can open it, and its pages.
PDFFiles ==
    {[opens |-> FALSE, pages |-> <<>>]}
    \cup {[opens |-> TRUE, pages |-> ps] : ps \in PageSeqs(MaxPages)}

PDFInitial ==
    [text |-> <<>>,
     metadata |-> [pages |-> 0, extraction_method |-> <<>>, tables_found |-> 0]]

\* The threshold applied to the untrimmed text
IsDirect_Untrimmed(text) ==
    /\ text # None
    /\ text # <<>>
    /\ Len(text) > MinTextLen

\* if text and len(text.strip()) > 30
IsDirect(text) ==
    /\ text # None
    /\ text # <<>>
    /\ Len(Strip(text)) > MinTextLen

\* An OCR fallback whose failure is not contained
PDFOcr_Uncaught(st, page, i) ==
    LET attempted == [st EXCEPT !.ocr = Append(@, i)]
    IN  IF ~page.raster_ok
        THEN [attempted EXCEPT !.exc = Exc("PDFPageCountError", <<"Unable to get page count">>)]
        ELSE IF ~page.ocr_ok
        THEN [attempted EXCEPT !.exc = Exc("TesseractError", <<"tesseract failed">>)]
        ELSE [attempted EXCEPT !.all_text = Append(@, page.ocr_text),
                               !.methods = Append(@, S_PAGE \o Str(i) \o S_OCR)]

\* The OCR fallback of page i, inside its own try/except Exception
PDFOcr(st, page, i) ==
    LET attempted == [st EXCEPT !.ocr = Append(@, i)]
        exc == IF ~page.raster_ok THEN Exc("PDFPageCountError", <<"Unable to get page count">>)
               ELSE IF ~page.ocr_ok THEN Exc("TesseractError", <<"tesseract failed">>)
               ELSE NoExc
    IN  IF exc = NoExc
        THEN [attempted EXCEPT !.all_text = Append(@, page.ocr_text),
                               !.methods = Append(@, OcrTag(i))]
        ELSE IF Catches("Exception", exc.type) THEN attempted
        ELSE [attempted EXCEPT !.exc = exc]

\* The text of page i: the text layer if it is significant, else OCR
PDFPageText(st, page, i) ==
    IF page.text_raises
    THEN [st EXCEPT !.exc = Exc("PDFSyntaxError", <<"cannot read page">>)]
    ELSE IF IsDirect(page.text)
    THEN [st EXCEPT !.all_text = Append(@, page.text),
                    !.methods = Append(@, DirectTag(i))]
    ELSE PDFOcr(st, page, i)

\* ' | '.join([str(cell) for cell in row if cell])
RowText(row) ==
    Join(SelectSeq(row, LAMBDA cell : cell # None /\ cell # <<>>), S_PIPE)

\* '\n'.join([... for row in table])
TableText(table) == Join([r \in 1..Len(table) |-> RowText(table[r])], <<10>>)

\* for table in tables: ... all_text.append(f"TABLE:\n{table_text}"), which
\* the first table that cannot be serialized ends
RECURSIVE PDFAppendTables(_, _, _)
PDFAppendTables(all_text, page, k) ==
    IF k > Len(page.tables) THEN all_text
    ELSE IF k \in page.bad_tables THEN all_text
    ELSE PDFAppendTables(Append(all_text, S_TABLE \o TableText(page.tables[k])),
                         page, k + 1)

\* The tables of a page, inside their own bare try/except
PDFPageTables(st, page) ==
    IF page.tables_raise THEN st
    ELSE IF page.tables = <<>> THEN st
    ELSE [st EXCEPT !.tables_count = @ + Len(page.tables),
                    !.all_text = PDFAppendTables(@, page, 1)]

\* for i, page in enumerate(pdf.pages), from page i on
RECURSIVE PDFLoop(_, _, _)
PDFLoop(st, pages, i) ==
    IF i > Len(pages) THEN st
    ELSE LET s1 == PDFPageText(st, pages[i], i)
         IN  IF s1.exc # NoExc THEN s1
             ELSE PDFLoop(PDFPageTables(s1, pages[i]), pages, i + 1)

\* A handler that rebuilds the metadata around the error
PDFExcept_Rebuild(res, e) == [res EXCEPT !.metadata = [error |-> e.msg]]

\* A handler that starts the metadata over
PDFExcept_ResetPages(res, e) ==
    [res EXCEPT !.metadata = SetKey([@ EXCEPT !.pages = 0], "error", e.msg)]

PDFExcept(res, e) == [res EXCEPT !.metadata = SetKey(@, "error", e.msg)]

PDFExtract(file) ==
    IF ~file.opens
    THEN LET e == Exc("PDFSyntaxError", <<"No /Root object! - Is this really a PDF?">>)
         IN  IF Catches("Exception", e.type)
             THEN Returned(PDFExcept(PDFInitial, e), 0, 0, <<>>)
             ELSE Propagated(e, 0, 0, <<>>)
    ELSE LET st == PDFLoop([all_text |-> <<>>, methods |-> <<>>, tables_count |-> 0,
                            ocr |-> <<>>, exc |-> NoExc], file.pages, 1)
             opened == [PDFInitial EXCEPT !.metadata.pages = Len(file.pages),
                                          !.metadata.extraction_method = st.methods]
         IN  IF st.exc = NoExc
             THEN Returned([opened EXCEPT !.text = Join(st.all_text, <<10, 10>>),
                                         !.metadata.tables_found = st.tables_count],
                           1, 1, st.ocr)
             ELSE IF Catches("Exception", st.exc.type)
             THEN Returned(PDFExcept(opened, st.exc), 1, 1, st.ocr)
             ELSE Propagated(st.exc, 1, 1, st.ocr)

----------------------------------------------------------------------------
(* ImageExtractor *)

\* An image file:
\*   opens       Image.open identifies the file and reads its header
\*   size        the (width, height) of the header
\*   ocr_ok      pytesseract.image_to_string returns ocr_text, or raises
\*   lib_closes  the imaging library closed the file on its own while the
\*               pixel data was loaded (it does so for a single-frame image
\*               whose data loads completely)
ImageFiles ==
    {[opens |-> FALSE, size |-> None, ocr_ok |-> FALSE, ocr_text |-> <<>>,
      lib_closes |-> FALSE]}
    \cup {[opens |-> TRUE, size |-> sz, ocr_ok |-> ok,
           ocr_text |-> IF ok THEN <<115, 99, 97, 110>> ELSE <<>>,
           lib_closes |-> c] :
            sz \in {<<640, 480>>, <<1, 1>>}, ok \in BOOLEAN, c \in BOOLEAN}

ImageInitial ==
    [text |-> <<>>,
     metadata |-> [ocr_method |-> "tesseract", image_size |-> None]]

\* A handler that also clears what was read from the header
ImageExcept_Reset(res, e) ==
    [res EXCEPT !.metadata = SetKey([@ EXCEPT !.image_size = None], "error", e.msg)]

ImageExcept(res, e) == [res EXCEPT !.metadata = SetKey(@, "error", e.msg)]

\* Image.open is followed by no close and is under no with statement: of
\* the handle it opens, extract releases nothing itself.
ImageExtract(file) ==
    IF ~file.opens
    THEN LET e == Exc("UnidentifiedImageError", <<"cannot identify image file">>)
         IN  IF Catches("Exception", e.type)
             THEN Returned(ImageExcept(ImageInitial, e), 0, 0, <<>>)
             ELSE Propagated(e, 0, 0, <<>>)
    ELSE LET sized == [ImageInitial EXCEPT !.metadata.image_size = file.size]
             closed == IF file.lib_closes THEN 1 ELSE 0
             e == Exc("TesseractError", <<"tesseract failed">>)
         IN  IF file.ocr_ok
             THEN Returned([sized EXCEPT !.text = file.ocr_text], 1, closed, <<>>)
             ELSE IF Catches("Exception", e.type)
             THEN Returned(ImageExcept(sized, e), 1, closed, <<>>)
             ELSE Propagated(e, 1, closed, <<>>)

----------------------------------------------------------------------------
(* DOCXExtractor *)

\* A table of a document: rows of cell texts.
DocTable == << << <<120>>, <<121, 122>> >>, << <<>>, <<119>> >> >>

\* A DOCX file:
\*   opens       docx.Document(filepath) parses the package
\*   paragraphs  the text of each paragraph
\*   tables      the tables of the document
\*   bad_tables  the tables whose rows or cells cannot be read (reading them
\*               raises), by position in tables
DOCXFiles ==
    {[opens |-> FALSE, paragraphs |-> <<>>, tables |-> <<>>, bad_tables |-> {}]}
    \cup {[opens |-> TRUE, paragraphs |-> ps, tables |-> ts.tables,
           bad_tables |-> ts.bad] :
            ps \in {<<>>, << <<72, 105>> >>,
                    << <<72, 105>>, <<32, 10>>, <<>>, <<89, 111>> >>},
            ts \in {[tables |-> <<>>, bad |-> {}],
                    [tables |-> <<DocTable>>, bad |-> {}],
                    [tables |-> <<DocTable, DocTable>>, bad |-> {}],
                    [tables |-> <<DocTable>>, bad |-> {1}],
                    [tables |-> <<DocTable, DocTable>>, bad |-> {2}]}}

DOCXInitial ==
    [text |-> <<>>, metadata |-> [paragraphs |-> 0, tables |-> 0]]

\* Every paragraph taken, blank or not
NonEmptyParagraphs_All(paragraphs) == paragraphs

\* if paragraph.text.strip()
NonEmptyParagraphs(paragraphs) ==
    SelectSeq(paragraphs, LAMBDA t : Strip(t) # <<>>)

\* 'TABLE:\n' + '\n'.join(' | '.join(cell.text for cell in row.cells) ...)
DocTableText(table) ==
    S_TABLE \o Join([r \in 1..Len(table) |-> Join(table[r], S_PIPE)], <<10>>)

\* for table in doc.tables, from table k on: the sections appended, and the
\* exception that ended the loop
RECURSIVE DOCXTables(_, _, _)
DOCXTables(all_text, file, k) ==
    IF k > Len(file.tables) THEN [all_text |-> all_text, exc |-> NoExc]
    ELSE IF k \in file.bad_tables
    THEN [all_text |-> all_text, exc |-> Exc("KeyError", <<"no relationship">>)]
    ELSE DOCXTables(Append(all_text, DocTableText(file.tables[k])), file, k + 1)

DOCXExcept(res, e) == [res EXCEPT !.metadata = SetKey(@, "error", e.msg)]

DOCXExtract(file) ==
    IF ~file.opens
    THEN LET e == Exc("PackageNotFoundError", <<"Package not found">>)
         IN  IF Catches("Exception", e.type)
             THEN Returned(DOCXExcept(DOCXInitial, e), 0, 0, <<>>)
             ELSE Propagated(e, 0, 0, <<>>)
    ELSE LET paras == NonEmptyParagraphs(file.paragraphs)
             counted == [DOCXInitial EXCEPT !.metadata.paragraphs = Len(paras)]
             t == DOCXTables(paras, file, 1)
         IN  IF t.exc = NoExc
             THEN Returned([counted EXCEPT !.metadata.tables = Len(file.tables),
                                          !.text = Join(t.all_text, <<10, 10>>)],
                           0, 0, <<>>)
             ELSE IF Catches("Exception", t.exc.type)
             THEN Returned(DOCXExcept(counted, t.exc), 0, 0, <<>>)
             ELSE Propagated(t.exc, 0, 0, <<>>)

----------------------------------------------------------------------------
(* CADExtractor *)

S_CAD == <<67, 65, 68, 32, 102, 105, 108, 101, 32, 100, 101, 116, 101, 99,
           116, 101, 100, 58, 32>>
S_DXF == <<46, 100, 120, 102>>

\* An entity of the model space:
\*   type      entity.dxftype()
\*   has_text  hasattr(entity.dxf, 'text')
\*   text      entity.dxf.text
\*   repr      str(entity)
\*   fault     "iter": the iteration raises instead of yielding the entity;
\*             "access": reading the entity's type or attributes raises
Entity(type, has_text, text, fault) ==
    [type |-> type, has_text |-> has_text, text |-> text,
     repr |-> <<69, 40, 35, 49, 41>>, fault |-> fault]

CADEntities ==
    { Entity("TEXT", TRUE, <<72, 105>>, "none"),
      Entity("MTEXT", FALSE, <<>>, "none"),
      Entity("DIMENSION", TRUE, <<82, 61, 53>>, "none"),
      Entity("DIMENSION", FALSE, <<>>, "none"),
      Entity("LINE", FALSE, <<>>, "none"),
      Entity("TEXT", TRUE, <<72, 105>>, "access"),
      Entity("LINE", FALSE, <<>>, "iter") }

RECURSIVE EntitySeqs(_)
EntitySeqs(n) ==
    IF n = 0 THEN {<<>>}
    ELSE LET shorter == EntitySeqs(n - 1)
         IN  shorter \cup {Append(s, e) : s \in {t \in shorter : Len(t) = n - 1},
                                           e \in CADEntities}

P_DXF == <<97, 47, 98, 46, 100, 120, 102>>          \* "a/b.dxf"
P_DXF_UPPER == <<98, 46, 68, 88, 70>>               \* "b.DXF"
P_DWG == <<97, 47, 99, 46, 100, 119, 103>>          \* "a/c.dwg"
P_NO_EXT == <<100, 120, 102>>                       \* "dxf"

\* A drawing file: its path, whether ezdxf.readfile can read it, the names
\* of its layers and the entities of its model space.
CADFile(path, readable, entities) ==
    [path |-> path, readable |-> readable,
     layers |-> IF readable THEN << <<48>>, <<100, 105, 109>> >> ELSE <<>>,
     entities |-> entities]

CADFiles ==
    {CADFile(P_DXF, TRUE, es) : es \in EntitySeqs(MaxEntities)}
    \cup {CADFile(P_DXF, FALSE, <<>>),
          CADFile(P_DXF_UPPER, TRUE, << Entity("TEXT", TRUE, <<72, 105>>, "none") >>),
          CADFile(P_DWG, FALSE, <<>>),
          CADFile(P_NO_EXT, FALSE, <<>>)}

CADInitial ==
    [text |-> <<>>,
     metadata |-> [entities |-> 0, text_entities |-> 0, layers |-> <<>>]]

\* One turn of `for entity in msp`
CADVisit(st, entity) ==
    IF entity.fault = "iter"
    THEN [st EXCEPT !.exc = Exc("DXFStructureError", <<"invalid entity">>)]
    ELSE LET counted == [st EXCEPT !.entities = @ + 1]
         IN  IF entity.fault = "access"
             THEN [counted EXCEPT !.exc = Exc("DXFStructureError", <<"invalid attribute">>)]
             ELSE IF entity.type \in {"TEXT", "MTEXT"}
             THEN [counted EXCEPT
                     !.all_text = Append(@, IF entity.has_text THEN entity.text
                                            ELSE entity.repr),
                     !.text_entities = @ + 1]
             ELSE IF entity.type = "DIMENSION" /\ entity.has_text
             THEN [counted EXCEPT !.all_text = Append(@, entity.text),
                                  !.text_entities = @ + 1]
             ELSE counted

\* for entity in msp, from entity k on
RECURSIVE CADLoop(_, _, _)
CADLoop(st, entities, k) ==
    IF k > Len(entities) THEN st
    ELSE LET s1 == CADVisit(st, entities[k])
         IN  IF s1.exc # NoExc THEN s1 ELSE CADLoop(s1, entities, k + 1)

\* except Exception as e: the error, and the placeholder text
CADExcept(res, e, filepath) ==
    [res EXCEPT !.metadata = SetKey(@, "error", e.msg),
                !.text = S_CAD \o Basename(filepath)]

CADExtract(file) ==
    IF ~EndsWith(Lower(file.path), S_DXF)
    THEN Returned(CADInitial, 0, 0, <<>>)
    ELSE IF ~file.readable
    THEN LET e == Exc("DXFStructureError", <<"Not a DXF file">>)
         IN  IF Catches("Exception", e.type)
             THEN Returned(CADExcept(CADInitial, e, file.path), 0, 0, <<>>)
             ELSE Propagated(e, 0, 0, <<>>)
    ELSE LET st == CADLoop([all_text |-> <<>>, entities |-> 0, text_entities |-> 0,
                            exc |-> NoExc], file.entities, 1)
             walked == [CADInitial EXCEPT !.metadata.layers = file.layers,
                                          !.metadata.entities = st.entities]
         IN  IF st.exc = NoExc
             THEN Returned([walked EXCEPT !.metadata.text_entities = st.text_entities,
                                         !.text = Join(st.all_text, <<10>>)],
                           0, 0, <<>>)
             ELSE IF Catches("Exception", st.exc.type)
             THEN Returned(CADExcept(walked, st.exc, file.path), 0, 0, <<>>)
             ELSE Propagated(st.exc, 0, 0, <<>>)

----------------------------------------------------------------------------
(* ExtractorFactory *)

Classes ==
    {"PDFExtractor", "ImageExtractor", "DOCXExtractor", "CADExtractor",
     "CSVExtractor", "TXTExtractor"}

\* ExtractorFactory.extractors
Registry ==
    [tag \in {"PDF", "IMAGE", "DOCX", "DOC", "DXF", "DWG", "CSV", "TXT", "XLSX"} |->
        CASE tag = "PDF" -> "PDFExtractor"
          [] tag = "IMAGE" -> "ImageExtractor"
          [] tag \in {"DOCX", "DOC"} -> "DOCXExtractor"
          [] tag \in {"DXF", "DWG"} -> "CADExtractor"
          [] tag \in {"CSV", "XLSX"} -> "CSVExtractor"
          [] tag = "TXT" -> "TXTExtractor"]

\* The tags callers ask for: the registered ones, and some that are not
Tags == DOMAIN Registry \cup {"XLS", "pdf", ""}

NoInstance == [cls |-> "", id |-> 0]

\* A lookup that falls back to the plain-text strategy
Lookup_Fallback(mapping, file_type) ==
    IF file_type \in DOMAIN mapping THEN mapping[file_type] ELSE "TXTExtractor"

\* cls.extractors.get(file_type)
Lookup(mapping, file_type) ==
    IF file_type \in DOMAIN mapping THEN mapping[file_type] ELSE ""

\* get_extractor(file_type): the instance returned, or the exception raised
GetExtractorOutcome(mapping, file_type, id) ==
    LET extractor_class == Lookup(mapping, file_type)
    IN  IF extractor_class # ""
        THEN [instance |-> [cls |-> extractor_class, id |-> id], raised |-> NoExc]
        ELSE [instance |-> NoInstance,
              raised |-> Exc("ValueError",
                             <<"No extractor available for file type: ", file_type>>)]

----------------------------------------------------------------------------
(* The state machine: a caller that asks the factory for strategies and     *)
(* runs extract on files.                                                   *)

NoCall == [op |-> "", tag |-> "", cls |-> "", file |-> <<>>]

Init ==
    /\ extractors = Registry
    /\ instance = NoInstance
    /\ next_id = 0
    /\ call = NoCall
    /\ result = NoResult
    /\ raised = NoExc
    /\ ocr_attempts = <<>>
    /\ open_handles = 0

GetExtractor ==
    \E tag \in Tags :
        LET out == GetExtractorOutcome(extractors, tag, next_id + 1)
        IN  /\ out.raised = NoExc => next_id < MaxInstances
            /\ call' = [op |-> "get_extractor", tag |-> tag, cls |-> "", file |-> <<>>]
            /\ raised' = out.raised
            /\ IF out.raised = NoExc
               THEN instance' = out.instance /\ next_id' = next_id + 1
               ELSE UNCHANGED <<instance, next_id>>
            /\ result' = NoResult
            /\ ocr_attempts' = <<>>
            /\ UNCHANGED <<extractors, open_handles>>

\* The effect of instance.extract(file), which returned or raised `out`
Extracted(cls, file, out) ==
    /\ open_handles + out.opened - out.closed <= MaxOpenHandles
    /\ call' = [op |-> "extract", tag |-> "", cls |-> cls, file |-> file]
    /\ result' = out.result
    /\ raised' = out.raised
    /\ ocr_attempts' = out.ocr
    /\ open_handles' = open_handles + out.opened - out.closed
    /\ UNCHANGED <<extractors, instance, next_id>>

ExtractPDF ==
    /\ instance.cls = "PDFExtractor"
    /\ \E f \in PDFFiles : Extracted("PDFExtractor", f, PDFExtract(f))

ExtractImage ==
    /\ instance.cls = "ImageExtractor"
    /\ \E f \in ImageFiles : Extracted("ImageExtractor", f, ImageExtract(f))

ExtractDOCX ==
    /\ instance.cls = "DOCXExtractor"
    /\ \E f \in DOCXFiles : Extracted("DOCXExtractor", f, DOCXExtract(f))

ExtractCAD ==
    /\ instance.cls = "CADExtractor"
    /\ \E f \in CADFiles : Extracted("CADExtractor", f, CADExtract(f))

ExtractCSV ==
    /\ instance.cls = "CSVExtractor"
    /\ \E f \in CSVFiles : Extracted("CSVExtractor", f, CSVExtract(f))

ExtractTXT ==
    /\ instance.cls = "TXTExtractor"
    /\ \E f \in TXTFiles : Extracted("TXTExtractor", f, TXTExtract(f))

Next ==
    \/ GetExtractor
    \/ ExtractPDF
    \/ ExtractImage
    \/ ExtractDOCX
    \/ ExtractCAD
    \/ ExtractCSV
    \/ ExtractTXT

Spec == Init /\ [][Next]_vars

----------------------------------------------------------------------------
(* Properties *)

IsExtract(cls) == call.op = "extract" /\ call.cls = cls

HasError == "error" \in DOMAIN result.metadata

InSeq(x, s) == \E k \in 1..Len(s) : s[k] = x

Range(s) == {s[k] : k \in 1..Len(s)}

IsDxfPath(path) == EndsWith(Lower(path), S_DXF)

\* The file of the last extract call cannot be opened or parsed by the
\* strategy it was given to.
FailsToOpenOrParse ==
    \/ IsExtract("PDFExtractor")
       /\ (~call.file.opens
           \/ \E i \in 1..Len(call.file.pages) : call.file.pages[i].text_raises)
    \/ IsExtract("ImageExtractor") /\ (~call.file.opens \/ ~call.file.ocr_ok)
    \/ IsExtract("DOCXExtractor")
       /\ (~call.file.opens \/ call.file.bad_tables # {})
    \/ IsExtract("CADExtractor")
       /\ (\/ ~IsDxfPath(call.file.path)
           \/ ~call.file.readable
           \/ \E k \in 1..Len(call.file.entities) :
                 call.file.entities[k].fault # "none")
    \/ IsExtract("CSVExtractor")
       /\ (~call.file.exists \/ call.file.header = <<>> \/ call.file.malformed)
    \/ IsExtract("TXTExtractor") /\ ~call.file.exists

\* C1: every extract call returns a result and lets no failure through, and
\* for a file that fails to open or parse the result carries metadata.error
\* with a text that is empty or, for the CAD strategy, the placeholder.
C1_FailureIsRecorded ==
    call.op = "extract" =>
        /\ raised = NoExc
        /\ FailsToOpenOrParse =>
              /\ HasError
              /\ \/ result.text = <<>>
                 \/ /\ call.cls = "CADExtractor"
                    /\ result.text = S_CAD \o Basename(call.file.path)

\* The fixed metadata keys of each strategy
FixedKeys(cls) ==
    CASE cls = "PDFExtractor" -> {"pages", "extraction_method", "tables_found"}
      [] cls = "ImageExtractor" -> {"ocr_method", "image_size"}
      [] cls = "DOCXExtractor" -> {"paragraphs", "tables"}
      [] cls = "CADExtractor" -> {"entities", "text_entities", "layers"}
      [] cls = "CSVExtractor" -> {"rows", "columns", "encoding"}
      [] cls = "TXTExtractor" -> {"encoding", "lines"}

IsStr(s) == s # None /\ \A i \in 1..Len(s) : s[i] >= 0

\* C2: on every exit path of every strategy's extract the result has a text
\* that is a string and a metadata mapping holding all fixed keys of the
\* strategy's format, with or without an error key.
C2_FixedSchema ==
    call.op = "extract" =>
        /\ IsStr(result.text)
        /\ FixedKeys(call.cls) \subseteq DOMAIN result.metadata

\* A PDF extraction failed after its first page, and the keys are all there
C2_Witness ==
    /\ IsExtract("PDFExtractor")
    /\ HasError
    /\ result.metadata.pages = 2
    /\ result.metadata.extraction_method # <<>>
    /\ FixedKeys("PDFExtractor") \subseteq DOMAIN result.metadata

\* The sections a PDF extraction had collected when it stopped
PDFCollected(file) ==
    PDFLoop([all_text |-> <<>>, methods |-> <<>>, tables_count |-> 0,
             ocr |-> <<>>, exc |-> NoExc], file.pages, 1).all_text

\* C3: a result that carries metadata.error still contains the text that was
\* collected before the failure point (PDF: the sections of the pages before
\* the page that failed; DOCX: the paragraphs and the tables before the table
\* that failed).
C3_PartialTextSurvives ==
    /\ IsExtract("PDFExtractor") /\ HasError /\ call.file.opens =>
          \A k \in 1..Len(PDFCollected(call.file)) :
              Contains(result.text, PDFCollected(call.file)[k])
    /\ IsExtract("DOCXExtractor") /\ HasError /\ call.file.opens =>
          \A k \in 1..Len(NonEmptyParagraphs(call.file.paragraphs)) :
              Contains(result.text, NonEmptyParagraphs(call.file.paragraphs)[k])

\* The first page whose text layer cannot be read; Len + 1 if there is none
FirstUnreadable(pages) ==
    LET bad == {i \in 1..Len(pages) : pages[i].text_raises}
    IN  IF bad = {} THEN Len(pages) + 1
        ELSE CHOOSE i \in bad : \A j \in bad : i <= j

\* len(text.strip()) of a page's direct text, 0 when there is none
TrimmedLen(text) == IF text = None THEN 0 ELSE Len(Strip(text))

\* C4: a page is tagged direct only if its trimmed direct text is longer
\* than 30 characters; a page whose trimmed direct text has at most 30
\* characters is never tagged direct, and OCR is attempted on that page and
\* on no other.
C4_DirectOnlyAboveThreshold ==
    IsExtract("PDFExtractor") =>
        LET pages == call.file.pages
            read(i) == i < FirstUnreadable(pages)
        IN  \A i \in 1..Len(pages) :
              /\ InSeq(DirectTag(i), result.metadata.extraction_method) =>
                    read(i) /\ TrimmedLen(pages[i].text) > 30
              /\ read(i) /\ TrimmedLen(pages[i].text) <= 30 =>
                    /\ ~InSeq(DirectTag(i), result.metadata.extraction_method)
                    /\ i \in Range(ocr_attempts)
              /\ i \in Range(ocr_attempts) =>
                    read(i) /\ TrimmedLen(pages[i].text) <= 30

\* A page of exactly 30 characters between blanks went to OCR, after a page
\* that was taken directly
C4_Witness ==
    /\ IsExtract("PDFExtractor")
    /\ Len(call.file.pages) = 2
    /\ InSeq(DirectTag(1), result.metadata.extraction_method)
    /\ call.file.pages[2].text # None
    /\ Len(call.file.pages[2].text) > 30
    /\ TrimmedLen(call.file.pages[2].text) = 30
    /\ ocr_attempts = <<2>>
    /\ InSeq(OcrTag(2), result.metadata.extraction_method)

\* C5: for a drawing whose path does not end in .dxf the CAD strategy
\* returns the placeholder text with metadata.error set and both counts 0.
C5_LegacyPlaceholder ==
    IsExtract("CADExtractor") /\ ~IsDxfPath(call.file.path) =>
        /\ result.text = S_CAD \o Basename(call.file.path)
        /\ HasError
        /\ result.metadata.entities = 0
        /\ result.metadata.text_entities = 0

\* The bytes are a Windows-1252 text and not valid UTF-8
IsCp1252NotUtf8(bs) == Cp1252Decode(bs) # None /\ Utf8Decode(bs) = None

\* C6: for a TXT or CSV file in Windows-1252 whose bytes are not valid UTF-8
\* the resolved metadata.encoding is cp1252 and the decoded text is the
\* original content.
C6_Cp1252Resolved ==
    /\ IsExtract("TXTExtractor") /\ call.file.exists
          /\ IsCp1252NotUtf8(call.file.bytes) =>
          /\ result.metadata.encoding = "cp1252"
          /\ result.text = UniversalNewlines(Cp1252Decode(call.file.bytes))
    /\ IsExtract("CSVExtractor") /\ call.file.exists /\ ~call.file.malformed
          /\ (\A j \in 1..Len(call.file.header) :
                 Cp1252Decode(call.file.header[j]) # None)
          /\ (\E j \in 1..Len(call.file.header) :
                 Utf8Decode(call.file.header[j]) = None) =>
          /\ result.metadata.encoding = "cp1252"
          /\ \A j \in 1..Len(call.file.header) :
                 Contains(result.text, Cp1252Decode(call.file.header[j]))

\* The primary tag of an alias
PrimaryTag(tag) ==
    CASE tag = "DOC" -> "DOCX"
      [] tag = "DWG" -> "DXF"
      [] tag = "XLSX" -> "CSV"
      [] OTHER -> tag

RegisteredTags ==
    {"PDF", "IMAGE", "DOCX", "DOC", "DXF", "DWG", "CSV", "TXT", "XLSX"}

\* C7: get_extractor returns, for a registered tag, a new instance of the
\* class bound to the tag (an alias: the class of its primary tag) and does
\* not raise; for an unregistered tag it raises the "no extractor available"
\* error that names the tag; extract never raises; no call changes the
\* mapping.
C7_FactoryTotal ==
    [][ /\ extractors' = extractors
        /\ call'.op = "extract" => raised' = NoExc
        /\ call'.op = "get_extractor" =>
              IF call'.tag \in RegisteredTags
              THEN /\ raised' = NoExc
                   /\ instance'.cls \in Classes
                   /\ instance'.cls = extractors[call'.tag]
                   /\ instance'.cls = extractors[PrimaryTag(call'.tag)]
                   /\ instance'.id > next_id
                   /\ instance'.id # instance.id
              ELSE /\ raised'.type = "ValueError"
                   /\ raised'.msg[1] = "No extractor available for file type: "
                   /\ raised'.msg[2] = call'.tag
                   /\ instance' = instance ]_vars

\* An unregistered tag was refused after an alias had been served
C7_Witness ==
    /\ call.op = "get_extractor"
    /\ call.tag = "pdf"
    /\ raised.type = "ValueError"
    /\ raised.msg[2] = "pdf"
    /\ instance.cls = "CADExtractor"
    /\ instance.id = 2

\* The file parses into a data frame
CSVParses(file) == file.exists /\ file.header # <<>> /\ ~file.malformed

\* C8: for a CSV file that parses, with N data rows, metadata.rows is N,
\* metadata.columns the number of columns, and the text shows data row i
\* exactly when i <= min(N, 10).
C8_PreviewBounded ==
    IsExtract("CSVExtractor") /\ CSVParses(call.file) =>
        /\ result.metadata.rows = call.file.nrows
        /\ result.metadata.columns = Len(call.file.header)
        /\ \A i \in 1..call.file.nrows, j \in 1..Len(call.file.header) :
              Contains(result.text, DataCell(i, j)) <=> i <= 10

\* A file of more than ten rows was extracted
C8_Witness ==
    /\ IsExtract("CSVExtractor")
    /\ CSVParses(call.file)
    /\ call.file.nrows > 10
    /\ result.metadata.rows = call.file.nrows
    /\ Contains(result.text, DataCell(10, 1))
    /\ ~Contains(result.text, DataCell(11, 1))

\* C9 as stated: an Image result with an error key has a null image_size and
\* an empty text.
C9_ErrorClearsSize ==
    IsExtract("ImageExtractor") /\ HasError =>
        /\ result.metadata.image_size = None
        /\ result.text = <<>>

\* C9, amended: any failure sets metadata.error and leaves the text empty;
\* image_size is null when the image could not be opened, and the size read
\* from the header when the failure came after that (OCR).
C9_ErrorKeepsHeaderSize ==
    IsExtract("ImageExtractor") =>
        /\ (~call.file.opens \/ ~call.file.ocr_ok) => HasError
        /\ HasError =>
              /\ result.text = <<>>
              /\ ~call.file.opens => result.metadata.image_size = None
              /\ call.file.opens =>
                    /\ result.metadata.image_size = call.file.size
                    /\ result.metadata.image_size # None

\* OCR failed on an image whose header had been read
C9_Witness ==
    /\ IsExtract("ImageExtractor")
    /\ HasError
    /\ call.file.opens
    /\ result.metadata.image_size = <<640, 480>>

\* C10: after any sequence of extract calls no handle is still open.
C10_NoOpenHandles == open_handles = 0

----------------------------------------------------------------------------
(* PDF extraction, page by page *)

\* The PDF file of the last call opened and the text layer of every page
\* could be read: no failure reached the outer handler.
PDFNoTopLevelFailure ==
    /\ IsExtract("PDFExtractor")
    /\ call.file.opens
    /\ \A i \in 1..Len(call.file.pages) : ~call.file.pages[i].text_raises

PageIsDirect(page) == TrimmedLen(page.text) > 30

PageOcrFails(page) == ~PageIsDirect(page) /\ (~page.raster_ok \/ ~page.ocr_ok)

\* The tables page.extract_tables() handed over, on the pages from i on
RECURSIVE TablesReturned(_, _)
TablesReturned(pages, i) ==
    IF i > Len(pages) THEN 0
    ELSE (IF pages[i].tables_raise THEN 0 ELSE Len(pages[i].tables))
         + TablesReturned(pages, i + 1)

\* C12: a failure of OCR or of table extraction on a page sets no
\* metadata.error; the text accepted from a page stays in the output; table
\* extraction is still run on a page whose OCR failed; every later page is
\* still processed.
C12_PartialFailureContained ==
    PDFNoTopLevelFailure =>
        LET pages == call.file.pages
        IN  /\ ~HasError
            /\ result.metadata.pages = Len(pages)
            /\ \A i \in 1..Len(pages) :
                  /\ PageIsDirect(pages[i]) =>
                        /\ InSeq(DirectTag(i), result.metadata.extraction_method)
                        /\ Contains(result.text, pages[i].text)
                  /\ ~PageIsDirect(pages[i]) => i \in Range(ocr_attempts)
                  /\ ~PageIsDirect(pages[i]) /\ ~PageOcrFails(pages[i]) =>
                        /\ InSeq(OcrTag(i), result.metadata.extraction_method)
                        /\ Contains(result.text, pages[i].ocr_text)
            /\ result.metadata.tables_found = TablesReturned(pages, 1)

\* OCR failed on page 1, whose table was still extracted, and page 2 was
\* taken directly
C12_Witness ==
    /\ PDFNoTopLevelFailure
    /\ Len(call.file.pages) = 2
    /\ PageOcrFails(call.file.pages[1])
    /\ call.file.pages[1].tables # <<>>
    /\ ~call.file.pages[1].tables_raise
    /\ ocr_attempts = <<1>>
    /\ ~HasError
    /\ result.metadata.tables_found >= 1
    /\ Contains(result.text, S_TABLE)
    /\ result.metadata.extraction_method = <<DirectTag(2)>>

\* C13: on a top-level failure of a PDF extraction the text is empty and
\* metadata.pages is 0 when the file could not be opened, the page count of
\* the document when the failure came after opening.
C13_TopLevelFailure ==
    IsExtract("PDFExtractor") /\ HasError =>
        /\ result.text = <<>>
        /\ result.metadata.pages =
              IF call.file.opens THEN Len(call.file.pages) ELSE 0

\* The second page could not be read after sections of the first had been
\* collected
C13_Witness ==
    /\ IsExtract("PDFExtractor")
    /\ HasError
    /\ call.file.opens
    /\ Len(call.file.pages) = 2
    /\ call.file.pages[2].text_raises
    /\ PDFCollected(call.file) # <<>>
    /\ result.text = <<>>
    /\ result.metadata.pages = 2

----------------------------------------------------------------------------
(* CAD extraction, entity by entity *)

\* The position of the first entity that makes the walk fail; 0 if none
FirstFault(entities) ==
    LET bad == {k \in 1..Len(entities) : entities[k].fault # "none"}
    IN  IF bad = {} THEN 0 ELSE CHOOSE k \in bad : \A j \in bad : k <= j

IsTextEntity(e) ==
    \/ e.type \in {"TEXT", "MTEXT"}
    \/ e.type = "DIMENSION" /\ e.has_text

\* The entities the walk had visited when it failed at position p: those
\* before p, and the one at p if the iteration yielded it
VisitedBeforeFailure(entities, p) ==
    IF entities[p].fault = "access" THEN p ELSE p - 1

\* The text entities among the first p - 1 entities
TextEntitiesBefore(entities, p) ==
    Cardinality({k \in 1..(p - 1) : IsTextEntity(entities[k])})

\* C14: when the walk over a DXF drawing fails after k entities were
\* visited, t of them text entities, the result has the placeholder text,
\* metadata.error, metadata.entities = k and metadata.text_entities = t.
C14_PartialCounts ==
    /\ IsExtract("CADExtractor")
    /\ IsDxfPath(call.file.path)
    /\ call.file.readable
    /\ FirstFault(call.file.entities) > 0
    => LET p == FirstFault(call.file.entities)
       IN  /\ result.text = S_CAD \o Basename(call.file.path)
           /\ HasError
           /\ result.metadata.entities = VisitedBeforeFailure(call.file.entities, p)
           /\ result.metadata.text_entities = TextEntitiesBefore(call.file.entities, p)

----------------------------------------------------------------------------
(* The provenance tags and the table sections of a PDF result *)

\* C15 as stated: without metadata.error, extraction_method holds exactly
\* one tag per page, in page order, 'direct' or 'ocr' for its page, so its
\* length is metadata.pages.
C15_OneTagPerPage ==
    IsExtract("PDFExtractor") /\ ~HasError =>
        /\ Len(result.metadata.extraction_method) = result.metadata.pages
        /\ \A i \in 1..Len(result.metadata.extraction_method) :
              result.metadata.extraction_method[i] \in {DirectTag(i), OcrTag(i)}

\* The tags of the pages from i on, a page whose OCR failed having none
RECURSIVE TagsOfPages(_, _)
TagsOfPages(pages, i) ==
    IF i > Len(pages) THEN <<>>
    ELSE (IF PageIsDirect(pages[i]) THEN <<S_PAGE \o Str(i) \o S_DIRECT>>
          ELSE IF PageOcrFails(pages[i]) THEN <<>>
          ELSE <<S_PAGE \o Str(i) \o S_OCR>>)
         \o TagsOfPages(pages, i + 1)

\* C15, amended: without metadata.error, extraction_method holds, in page
\* order, one tag for every page except the pages whose OCR fallback
\* failed, which have none; the tag of page i is 'page_i_direct' or
\* 'page_i_ocr'; its length is metadata.pages minus the number of pages
\* whose OCR failed.
C15_OneTagPerRecognizedPage ==
    IsExtract("PDFExtractor") /\ ~HasError =>
        /\ result.metadata.extraction_method = TagsOfPages(call.file.pages, 1)
        /\ Len(result.metadata.extraction_method) =
              result.metadata.pages
              - Cardinality({i \in 1..Len(call.file.pages) :
                                PageOcrFails(call.file.pages[i])})

\* OCR failed on page 1 and succeeded on page 2: one tag for two pages
C15_Witness ==
    /\ IsExtract("PDFExtractor")
    /\ ~HasError
    /\ result.metadata.pages = 2
    /\ PageOcrFails(call.file.pages[1])
    /\ result.metadata.extraction_method = <<OcrTag(2)>>

\* C16: without metadata.error, tables_found is the number of 'TABLE:'
\* sections of the text, also when table extraction or serialization fails
\* on some pages, and the table sections of a page follow the page's text.
C16_TablesCounted ==
    IsExtract("PDFExtractor") /\ ~HasError =>
        /\ result.metadata.tables_found = Count(result.text, S_TABLE)
        /\ \A i \in 1..Len(result.text) :
              MatchAt(result.text, i, S_TABLE) /\ i > 1 =>
                  MatchAt(result.text, i - 2, <<10, 10>>)
        /\ Len(call.file.pages) >= 1 /\ PageIsDirect(call.file.pages[1]) =>
              MatchAt(result.text, 1, call.file.pages[1].text)

----------------------------------------------------------------------------
(* The counts of a DOCX result *)

\* The paragraphs of a document that are neither empty nor whitespace-only
NonBlank(paragraphs) ==
    {i \in 1..Len(paragraphs) :
        \E j \in 1..Len(paragraphs[i]) : ~IsSpace(paragraphs[i][j])}

\* The paragraph part of the text: the non-blank paragraphs, in order,
\* separated by blank lines
RECURSIVE ParagraphText(_, _)
ParagraphText(paragraphs, i) ==
    IF i > Len(paragraphs) THEN <<>>
    ELSE IF i \notin NonBlank(paragraphs) THEN ParagraphText(paragraphs, i + 1)
    ELSE LET rest == ParagraphText(paragraphs, i + 1)
         IN  IF rest = <<>> THEN paragraphs[i]
             ELSE paragraphs[i] \o <<10, 10>> \o rest

\* Without metadata.error: the counts and the order of the sections
DOCXSuccessShape ==
    IsExtract("DOCXExtractor") /\ ~HasError =>
        LET ptext == ParagraphText(call.file.paragraphs, 1)
        IN  /\ result.metadata.paragraphs =
                  Cardinality(NonBlank(call.file.paragraphs))
            /\ result.metadata.tables = Count(result.text, S_TABLE)
            /\ result.metadata.tables = Len(call.file.tables)
            /\ MatchAt(result.text, 1, ptext)
            /\ \A i \in 1..Len(result.text) :
                  MatchAt(result.text, i, S_TABLE) => i > Len(ptext)

\* C17 as stated: with metadata.error, whether opening failed or a later
\* step did, paragraphs and tables are both 0 and the text is empty; without
\* it, paragraphs counts the non-blank paragraphs, tables counts the
\* 'TABLE:' sections, and every table section follows all paragraph text.
C17_ErrorZeroesCounts ==
    /\ IsExtract("DOCXExtractor") /\ HasError =>
          /\ result.metadata.paragraphs = 0
          /\ result.metadata.tables = 0
          /\ result.text = <<>>
    /\ DOCXSuccessShape

\* C17, amended: with metadata.error, whether opening failed or a later
\* step did, tables is 0 and the text is empty; paragraphs is 0 when
\* opening failed and keeps the count of non-blank paragraphs made before
\* the failure when a later step failed; without metadata.error the counts
\* and the order are as stated.
C17_ErrorKeepsParagraphCount ==
    /\ IsExtract("DOCXExtractor") /\ ~call.file.opens =>
          /\ HasError
          /\ result.metadata.paragraphs = 0
          /\ result.metadata.tables = 0
          /\ result.text = <<>>
    /\ IsExtract("DOCXExtractor") /\ call.file.opens
          /\ call.file.bad_tables # {} =>
          /\ HasError
          /\ result.metadata.paragraphs =
                Cardinality(NonBlank(call.file.paragraphs))
          /\ result.metadata.tables = 0
          /\ result.text = <<>>
    /\ IsExtract("DOCXExtractor") /\ HasError =>
          ~call.file.opens \/ call.file.bad_tables # {}
    /\ DOCXSuccessShape

\* A table could not be read after two of four paragraphs were counted
C17_Witness ==
    /\ IsExtract("DOCXExtractor")
    /\ HasError
    /\ call.file.opens
    /\ Len(call.file.paragraphs) = 4
    /\ result.metadata.paragraphs = 2
    /\ Len(call.file.tables) = 2
    /\ result.metadata.tables = 0
    /\ result.text = <<>>

====
